---- MODULE Spec2Model ----
(***************************************************************************)
(* The export surface of the holistic-tracking DLL                          *)
(* (dll/holistic_tracking_dll/HolisticTrackingApi.cpp): five C-linkage      *)
(* functions, each a single `return m_HolisticTrackingDetect.<method>(...)` *)
(* on one global HolisticTrackingDetect object.                             *)
(*                                                                         *)
(* The class HolisticTrackingDetect (HolisticTrackingDetect.h/.cpp) is not  *)
(* among the source files; its methods are modelled from the description   *)
(* of its lifecycle: uninitialized -> initialized -> released, results 0/1. *)
(*                                                                         *)
(* A call of an exported function is three steps, so that calls of two      *)
(* threads can interleave as they do in the build (there is no lock):       *)
(*   the exported function evaluates its arguments and invokes the method,  *)
(*   the method runs (DetectCamera: a capture loop of several steps),       *)
(*   the exported function returns the method's value.                      *)
(***************************************************************************)
EXTENDS Integers, FiniteSets, Sequences, TLC

VARIABLES
    constructed,               \* how many HolisticTrackingDetect objects exist
    m_HolisticTrackingDetect,  \* the global object (its identity)
    det,                       \* state of each detector object
    pc,                        \* per thread: where it is in an exported call
    call,                      \* per thread: the exported call being made / last made
    inv,                       \* per thread: detector invocations made by that call
    dret,                      \* per thread: <<value the detector method returned>>
    ret,                       \* per thread: <<value the exported function returned>>
    initCalled,                \* history: Init has been called at least once
    releasedSinceInit,         \* history: Release called, and no Init since
    crashed,                   \* the process has crashed
    serialized                 \* the embedding caller serializes its invocations

vars == <<constructed, m_HolisticTrackingDetect, det, pc, call, inv, dret, ret,
          initCalled, releasedSinceInit, crashed, serialized>>

----------------------------------------------------------------------------
(* Bounds and input sets *)

\* Frames a capture loop may process before only its end is left to happen.
MaxFrames == 2

Threads == {"t1", "t2"}

\* The thread of the sequential specification.
Caller == "t1"

\* model_path: a null pointer, a path with no loadable graph, a loadable one.
Paths == {"null", "missing", "ok"}

\* image_width / image_height: disjoint, so that a swap is visible.
Widths == {0, 640}
Heights == {-1, 480}

\* int type tag of DetectFrame.
Types == {0, 1}

\* void* image_data, int* detect_result, void* detect_result_data.
Pointers == {"null", "valid"}

Lifecycles == {"uninitialized", "initialized", "released"}

DetectFns == {"MediapipeHolisticTrackingDetectFrameDirect",
              "MediapipeHolisticTrackingDetectFrame",
              "MediapipeHolisticTrackingDetectCamera"}

ExportedFns == DetectFns \cup {"MediapipeHolisticTrackingInit",
                               "MediapipeHolisticTrackingRelease"}

\* The detector method each exported function names in its return statement.
MethodOf(fn) ==
    CASE fn = "MediapipeHolisticTrackingInit" -> "InitModel"
      [] fn = "MediapipeHolisticTrackingDetectFrameDirect" -> "DetectImageDirect"
      [] fn = "MediapipeHolisticTrackingDetectCamera" -> "DetectCamera"
      [] fn = "MediapipeHolisticTrackingRelease" -> "Release"
      [] fn = "MediapipeHolisticTrackingDetectFrame" -> "DetectImage"

----------------------------------------------------------------------------
(* State after library load *)

NoStreams == <<FALSE, FALSE, FALSE, FALSE>>

\* A default-constructed detector.
FreshDetector ==
    [lifecycle |-> "uninitialized", streams |-> NoStreams,
     capturing |-> FALSE, frames |-> 0]

NoCall == [fn |-> "none", args |-> <<>>, pre |-> "uninitialized"]

\* HolisticTrackingDetect m_HolisticTrackingDetect;  -- one object, built at load.
InitCommon ==
    /\ constructed = 1
    /\ m_HolisticTrackingDetect = 1
    /\ det = [i \in {1} |-> FreshDetector]
    /\ pc = [t \in Threads |-> "idle"]
    /\ call = [t \in Threads |-> NoCall]
    /\ inv = [t \in Threads |-> <<>>]
    /\ dret = [t \in Threads |-> <<>>]
    /\ ret = [t \in Threads |-> <<>>]
    /\ initCalled = FALSE
    /\ releasedSinceInit = FALSE
    /\ crashed = FALSE

Init ==
    /\ InitCommon
    /\ serialized = TRUE

InitConc ==
    /\ InitCommon
    /\ serialized \in BOOLEAN

----------------------------------------------------------------------------
(* The exported functions (HolisticTrackingApi.cpp) *)

\* Variant bodies: an exported function that returns r without reaching the
\* detector at all.
ShortCircuit(t, fn, args, r) ==
    /\ pc[t] = "idle"
    /\ ~crashed
    /\ call' = [call EXCEPT ![t] =
                  [fn |-> fn, args |-> args,
                   pre |-> det[m_HolisticTrackingDetect].lifecycle]]
    /\ inv' = [inv EXCEPT ![t] = <<>>]
    /\ dret' = [dret EXCEPT ![t] = <<>>]
    /\ ret' = [ret EXCEPT ![t] = <<r>>]
    /\ UNCHANGED <<constructed, m_HolisticTrackingDetect, det, pc, crashed, serialized>>

\* Variant of Invoke: the exported functions share a mutex, so a thread gets in
\* only when no other thread is inside an exported function.
Invoke_Locked(t, fn, args, method, margs) ==
    /\ pc[t] = "idle"
    /\ \A u \in Threads \ {t} : pc[u] = "idle"
    /\ ~crashed
    /\ pc' = [pc EXCEPT ![t] = "in_detector"]
    /\ call' = [call EXCEPT ![t] =
                  [fn |-> fn, args |-> args,
                   pre |-> det[m_HolisticTrackingDetect].lifecycle]]
    /\ inv' = [inv EXCEPT ![t] =
                  << [method |-> method, args |-> margs,
                      self |-> m_HolisticTrackingDetect] >>]
    /\ dret' = [dret EXCEPT ![t] = <<>>]
    /\ ret' = [ret EXCEPT ![t] = <<>>]
    /\ UNCHANGED <<constructed, m_HolisticTrackingDetect, det, crashed, serialized>>

\* Thread t, idle, enters exported function fn with arguments args; the body
\* evaluates `m_HolisticTrackingDetect.method(margs)`: one invocation, on the
\* global object.  `pre` remembers the detector's lifecycle at entry.
Invoke(t, fn, args, method, margs) ==
    /\ pc[t] = "idle"
    /\ ~crashed
    /\ pc' = [pc EXCEPT ![t] = "in_detector"]
    /\ call' = [call EXCEPT ![t] =
                  [fn |-> fn, args |-> args,
                   pre |-> det[m_HolisticTrackingDetect].lifecycle]]
    /\ inv' = [inv EXCEPT ![t] =
                  << [method |-> method, args |-> margs,
                      self |-> m_HolisticTrackingDetect] >>]
    /\ dret' = [dret EXCEPT ![t] = <<>>]
    /\ ret' = [ret EXCEPT ![t] = <<>>]
    /\ UNCHANGED <<constructed, m_HolisticTrackingDetect, det, crashed, serialized>>

\* Variant of Init: every Init builds a new detector and makes it the global.
MediapipeHolisticTrackingInit_NewInstance(t, model_path, is_need_video_outputstream, is_need_pose_outputstream, is_need_hand_outputstream, is_need_face_outputstream) ==
    /\ pc[t] = "idle"
    /\ ~crashed
    /\ constructed' = constructed + 1
    /\ m_HolisticTrackingDetect' = constructed + 1
    /\ det' = [i \in 1..(constructed + 1) |->
                 IF i = constructed + 1 THEN FreshDetector ELSE det[i]]
    /\ pc' = [pc EXCEPT ![t] = "in_detector"]
    /\ call' = [call EXCEPT ![t] =
                  [fn |-> "MediapipeHolisticTrackingInit",
                   args |-> <<model_path, is_need_video_outputstream,
                              is_need_pose_outputstream, is_need_hand_outputstream,
                              is_need_face_outputstream>>,
                   pre |-> "uninitialized"]]
    /\ inv' = [inv EXCEPT ![t] =
                  << [method |-> "InitModel",
                      args |-> <<model_path, is_need_video_outputstream,
                                 is_need_pose_outputstream, is_need_hand_outputstream,
                                 is_need_face_outputstream>>,
                      self |-> constructed + 1] >>]
    /\ dret' = [dret EXCEPT ![t] = <<>>]
    /\ ret' = [ret EXCEPT ![t] = <<>>]
    /\ initCalled' = TRUE
    /\ releasedSinceInit' = FALSE
    /\ UNCHANGED <<crashed, serialized>>

\* Variant of Init: the shim remembers a Release and refuses a later Init itself.
MediapipeHolisticTrackingInit_BlockedAfterRelease(t, model_path, is_need_video_outputstream, is_need_pose_outputstream, is_need_hand_outputstream, is_need_face_outputstream) ==
    /\ IF releasedSinceInit
       THEN ShortCircuit(t, "MediapipeHolisticTrackingInit",
                         <<model_path, is_need_video_outputstream,
                           is_need_pose_outputstream, is_need_hand_outputstream,
                           is_need_face_outputstream>>, 0)
       ELSE Invoke(t, "MediapipeHolisticTrackingInit",
                   <<model_path, is_need_video_outputstream, is_need_pose_outputstream,
                     is_need_hand_outputstream, is_need_face_outputstream>>,
                   "InitModel",
                   <<model_path, is_need_video_outputstream, is_need_pose_outputstream,
                     is_need_hand_outputstream, is_need_face_outputstream>>)
    /\ initCalled' = TRUE
    /\ UNCHANGED releasedSinceInit

MediapipeHolisticTrackingInit(t, model_path, is_need_video_outputstream, is_need_pose_outputstream, is_need_hand_outputstream, is_need_face_outputstream) ==
    /\ Invoke(t, "MediapipeHolisticTrackingInit",
              <<model_path, is_need_video_outputstream, is_need_pose_outputstream,
                is_need_hand_outputstream, is_need_face_outputstream>>,
              "InitModel",
              <<model_path, is_need_video_outputstream, is_need_pose_outputstream,
                is_need_hand_outputstream, is_need_face_outputstream>>)
    /\ initCalled' = TRUE
    /\ releasedSinceInit' = FALSE

\* Variant of DetectFrameDirect: width and height passed in the wrong order.
MediapipeHolisticTrackingDetectFrameDirect_Swapped(t, image_width, image_height, image_data, detect_result, show_result_image) ==
    /\ Invoke(t, "MediapipeHolisticTrackingDetectFrameDirect",
              <<image_width, image_height, image_data, detect_result, show_result_image>>,
              "DetectImageDirect",
              <<image_height, image_width, image_data, detect_result, show_result_image>>)
    /\ UNCHANGED <<initCalled, releasedSinceInit>>

MediapipeHolisticTrackingDetectFrameDirect(t, image_width, image_height, image_data, detect_result, show_result_image) ==
    /\ Invoke(t, "MediapipeHolisticTrackingDetectFrameDirect",
              <<image_width, image_height, image_data, detect_result, show_result_image>>,
              "DetectImageDirect",
              <<image_width, image_height, image_data, detect_result, show_result_image>>)
    /\ UNCHANGED <<initCalled, releasedSinceInit>>

\* Variant of DetectCamera: the capture loop is started in the background and
\* the function returns at once.
MediapipeHolisticTrackingDetectCamera_Async(t, show_image) ==
    /\ pc[t] = "idle"
    /\ ~crashed
    /\ call' = [call EXCEPT ![t] =
                  [fn |-> "MediapipeHolisticTrackingDetectCamera",
                   args |-> <<show_image>>,
                   pre |-> det[m_HolisticTrackingDetect].lifecycle]]
    /\ inv' = [inv EXCEPT ![t] =
                  << [method |-> "DetectCamera", args |-> <<show_image>>,
                      self |-> m_HolisticTrackingDetect] >>]
    /\ det' = IF det[m_HolisticTrackingDetect].lifecycle = "initialized"
              THEN [det EXCEPT ![m_HolisticTrackingDetect].capturing = TRUE,
                               ![m_HolisticTrackingDetect].frames = 0]
              ELSE det
    /\ dret' = [dret EXCEPT ![t] = <<>>]
    /\ ret' = [ret EXCEPT ![t] =
                 IF det[m_HolisticTrackingDetect].lifecycle = "initialized"
                 THEN <<1>> ELSE <<0>>]
    /\ UNCHANGED <<constructed, m_HolisticTrackingDetect, pc, crashed, serialized,
                   initCalled, releasedSinceInit>>

MediapipeHolisticTrackingDetectCamera(t, show_image) ==
    /\ Invoke(t, "MediapipeHolisticTrackingDetectCamera", <<show_image>>,
              "DetectCamera", <<show_image>>)
    /\ UNCHANGED <<initCalled, releasedSinceInit>>

\* Variant of Release: releasing is reported as done without asking the detector.
MediapipeHolisticTrackingRelease_AlwaysSucceeds(t) ==
    /\ ShortCircuit(t, "MediapipeHolisticTrackingRelease", <<>>, 1)
    /\ releasedSinceInit' = TRUE
    /\ UNCHANGED initCalled

MediapipeHolisticTrackingRelease(t) ==
    /\ Invoke(t, "MediapipeHolisticTrackingRelease", <<>>, "Release", <<>>)
    /\ releasedSinceInit' = TRUE
    /\ UNCHANGED initCalled

\* Variant of DetectFrame: a copy-paste slip forwards it to Release.
MediapipeHolisticTrackingDetectFrame_CallsRelease(t, image_width, image_height, type, image_data, detect_result, detect_result_data) ==
    /\ Invoke(t, "MediapipeHolisticTrackingDetectFrame",
              <<image_width, image_height, type, image_data, detect_result,
                detect_result_data>>,
              "Release", <<>>)
    /\ UNCHANGED <<initCalled, releasedSinceInit>>

\* Variant of DetectFrame: the shim validates image_data and rejects a null one.
MediapipeHolisticTrackingDetectFrame_NullCheck(t, image_width, image_height, type, image_data, detect_result, detect_result_data) ==
    /\ IF image_data = "null"
       THEN ShortCircuit(t, "MediapipeHolisticTrackingDetectFrame",
                         <<image_width, image_height, type, image_data, detect_result,
                           detect_result_data>>, 0)
       ELSE Invoke(t, "MediapipeHolisticTrackingDetectFrame",
                   <<image_width, image_height, type, image_data, detect_result,
                     detect_result_data>>,
                   "DetectImage",
                   <<image_width, image_height, type, image_data, detect_result,
                     detect_result_data>>)
    /\ UNCHANGED <<initCalled, releasedSinceInit>>

MediapipeHolisticTrackingDetectFrame(t, image_width, image_height, type, image_data, detect_result, detect_result_data) ==
    /\ Invoke(t, "MediapipeHolisticTrackingDetectFrame",
              <<image_width, image_height, type, image_data, detect_result,
                detect_result_data>>,
              "DetectImage",
              <<image_width, image_height, type, image_data, detect_result,
                detect_result_data>>)
    /\ UNCHANGED <<initCalled, releasedSinceInit>>

\* Variant of the return: failure is reported as -1.
Return_NegativeOnFailure(t) ==
    /\ pc[t] = "detector_returned"
    /\ ~crashed
    /\ ret' = [ret EXCEPT ![t] = IF dret[t] = <<0>> THEN <<-1>> ELSE dret[t]]
    /\ pc' = [pc EXCEPT ![t] = "idle"]
    /\ UNCHANGED <<constructed, m_HolisticTrackingDetect, det, call, inv, dret,
                   initCalled, releasedSinceInit, crashed, serialized>>

\* Variant of the return: a detect function drops the method's value and
\* reports success.
Return_DetectIgnoresResult(t) ==
    /\ pc[t] = "detector_returned"
    /\ ~crashed
    /\ ret' = [ret EXCEPT ![t] = IF call[t].fn \in DetectFns THEN <<1>> ELSE dret[t]]
    /\ pc' = [pc EXCEPT ![t] = "idle"]
    /\ UNCHANGED <<constructed, m_HolisticTrackingDetect, det, call, inv, dret,
                   initCalled, releasedSinceInit, crashed, serialized>>

\* `return <method call>;` -- the exported function hands the method's int back.
Return(t) ==
    /\ pc[t] = "detector_returned"
    /\ ~crashed
    /\ ret' = [ret EXCEPT ![t] = dret[t]]
    /\ pc' = [pc EXCEPT ![t] = "idle"]
    /\ UNCHANGED <<constructed, m_HolisticTrackingDetect, det, call, inv, dret,
                   initCalled, releasedSinceInit, crashed, serialized>>

----------------------------------------------------------------------------
(* HolisticTrackingDetect: the methods of the detector object *)

\* The invocation thread t is inside.
Cur(t) == inv[t][1]

Inside(t, method) ==
    /\ pc[t] = "in_detector"
    /\ ~crashed
    /\ Len(inv[t]) = 1
    /\ Cur(t).method = method

\* The method thread t is inside returns r.
MethodReturns(t, r) ==
    /\ dret' = [dret EXCEPT ![t] = <<r>>]
    /\ pc' = [pc EXCEPT ![t] = "detector_returned"]
    /\ UNCHANGED <<constructed, m_HolisticTrackingDetect, call, inv, ret,
                   initCalled, releasedSinceInit, crashed, serialized>>

\* InitModel loads the graph at model_path and configures the output streams:
\* 1 and initialized when the graph loads, 0 and no change when it does not.
InitModel(t) ==
    /\ Inside(t, "InitModel")
    /\ LET i == Cur(t).self
           a == Cur(t).args
       IN  IF a[1] = "ok"
           THEN /\ det' = [det EXCEPT ![i] =
                             [lifecycle |-> "initialized",
                              streams |-> <<a[2], a[3], a[4], a[5]>>,
                              capturing |-> FALSE, frames |-> 0]]
                /\ MethodReturns(t, 1)
           ELSE /\ det' = det
                /\ MethodReturns(t, 0)

\* A frame the graph can be run on.
WellFormed(width, height, image_data, detect_result) ==
    /\ width > 0
    /\ height > 0
    /\ image_data = "valid"
    /\ detect_result = "valid"

\* DetectImageDirect: 0 unless initialized and the frame is well formed; then the
\* graph run decides.
DetectImageDirect(t) ==
    /\ Inside(t, "DetectImageDirect")
    /\ LET i == Cur(t).self
           a == Cur(t).args
       IN  \E r \in IF det[i].lifecycle = "initialized"
                       /\ WellFormed(a[1], a[2], a[3], a[4])
                    THEN {0, 1} ELSE {0} :
              /\ det' = det
              /\ MethodReturns(t, r)

\* DetectImage: as DetectImageDirect, with a type tag and a second output buffer.
DetectImage(t) ==
    /\ Inside(t, "DetectImage")
    /\ LET i == Cur(t).self
           a == Cur(t).args
       IN  \E r \in IF det[i].lifecycle = "initialized"
                       /\ WellFormed(a[1], a[2], a[4], a[5])
                       /\ a[6] = "valid"
                    THEN {0, 1} ELSE {0} :
              /\ det' = det
              /\ MethodReturns(t, r)

\* DetectCamera, entry: 0 at once unless initialized and the camera opens;
\* otherwise the capture loop starts and the method stays in it.
DetectCamera(t) ==
    /\ Inside(t, "DetectCamera")
    /\ LET i == Cur(t).self
       IN  /\ ~det[i].capturing
           /\ \E cameraOpens \in BOOLEAN :
                IF det[i].lifecycle = "initialized" /\ cameraOpens
                THEN /\ det' = [det EXCEPT ![i].capturing = TRUE, ![i].frames = 0]
                     /\ UNCHANGED <<constructed, m_HolisticTrackingDetect, pc, call,
                                    inv, dret, ret, initCalled, releasedSinceInit,
                                    crashed, serialized>>
                ELSE /\ det' = det
                     /\ MethodReturns(t, 0)

\* One iteration of the capture loop: grab a frame, run the graph.
CaptureFrame(t) ==
    /\ Inside(t, "DetectCamera")
    /\ LET i == Cur(t).self
       IN  /\ det[i].capturing
           /\ det[i].frames < MaxFrames
           /\ det' = [det EXCEPT ![i].frames = @ + 1]
    /\ UNCHANGED <<constructed, m_HolisticTrackingDetect, pc, call, inv, dret, ret,
                   initCalled, releasedSinceInit, crashed, serialized>>

\* The detector ends the capture loop by itself (key press, window closed, a
\* failed grab or graph run), and DetectCamera returns.
CaptureLoopEnds(t) ==
    /\ Inside(t, "DetectCamera")
    /\ LET i == Cur(t).self
       IN  /\ det[i].capturing
           /\ det' = [det EXCEPT ![i].capturing = FALSE]
    /\ \E r \in {0, 1} : MethodReturns(t, r)

\* Release tears the graph down: 1 and released when initialized, 0 when never
\* initialized; on an already released detector either result.
Release(t) ==
    /\ Inside(t, "Release")
    /\ LET i == Cur(t).self
       IN  \E r \in CASE det[i].lifecycle = "initialized" -> {1}
                      [] det[i].lifecycle = "uninitialized" -> {0}
                      [] det[i].lifecycle = "released" -> {0, 1} :
              /\ det' = IF det[i].lifecycle = "initialized"
                        THEN [det EXCEPT ![i] =
                                [lifecycle |-> "released", streams |-> NoStreams,
                                 capturing |-> FALSE, frames |-> 0]]
                        ELSE det
              /\ MethodReturns(t, r)

\* Two threads inside methods of the same object at once race on its members
\* (nothing orders their accesses): the method may leave the object in any state
\* and return either value ...
DataRace(t) ==
    /\ pc[t] = "in_detector"
    /\ ~crashed
    /\ Len(inv[t]) = 1
    /\ \E u \in Threads \ {t} :
          /\ pc[u] = "in_detector"
          /\ Len(inv[u]) = 1
          /\ Cur(u).self = Cur(t).self
    /\ \E l \in Lifecycles, s \in {det[Cur(t).self].streams, NoStreams}, r \in {0, 1} :
          /\ det' = [det EXCEPT ![Cur(t).self] =
                       [lifecycle |-> l, streams |-> s,
                        capturing |-> FALSE, frames |-> 0]]
          /\ MethodReturns(t, r)

\* ... or bring the process down.
RaceCrash(t) ==
    /\ pc[t] = "in_detector"
    /\ ~crashed
    /\ Len(inv[t]) = 1
    /\ \E u \in Threads \ {t} :
          /\ pc[u] = "in_detector"
          /\ Len(inv[u]) = 1
          /\ Cur(u).self = Cur(t).self
    /\ crashed' = TRUE
    /\ UNCHANGED <<constructed, m_HolisticTrackingDetect, det, pc, call, inv, dret,
                   ret, initCalled, releasedSinceInit, serialized>>

----------------------------------------------------------------------------
(* Specifications *)

\* The steps of the detector method thread t is inside.
DetectorStep(t) ==
    \/ InitModel(t)
    \/ DetectImageDirect(t)
    \/ DetectImage(t)
    \/ DetectCamera(t)
    \/ CaptureFrame(t)
    \/ CaptureLoopEnds(t)
    \/ Release(t)

\* Sequential use (init -> detect* -> release from one thread), every argument
\* combination of the input sets.
Next ==
    \/ \E model_path \in Paths, v \in BOOLEAN, p \in BOOLEAN, h \in BOOLEAN,
          f \in BOOLEAN :
          MediapipeHolisticTrackingInit(Caller, model_path, v, p, h, f)
    \/ \E w \in Widths, h \in Heights, image_data \in Pointers,
          detect_result \in Pointers, show \in BOOLEAN :
          MediapipeHolisticTrackingDetectFrameDirect(Caller, w, h, image_data,
                                                     detect_result, show)
    \/ \E show_image \in BOOLEAN :
          MediapipeHolisticTrackingDetectCamera(Caller, show_image)
    \/ MediapipeHolisticTrackingRelease(Caller)
    \/ \E w \in Widths, h \in Heights, type \in Types, image_data \in Pointers,
          detect_result \in Pointers, detect_result_data \in Pointers :
          MediapipeHolisticTrackingDetectFrame(Caller, w, h, type, image_data,
                                               detect_result, detect_result_data)
    \/ DetectorStep(Caller)
    \/ Return(Caller)

Spec == Init /\ [][Next]_vars

\* What the embedding caller does before an invocation: when it serializes, it
\* waits until no other thread is inside an exported function.
CallerMayInvoke(t) ==
    serialized => \A u \in Threads \ {t} : pc[u] = "idle"

\* Two threads; the header's default arguments where there are any, a loadable and
\* an unloadable model, a good and a null frame.
NextConc ==
    \E t \in Threads :
        \/ /\ CallerMayInvoke(t)
           /\ \E model_path \in {"missing", "ok"} :
                MediapipeHolisticTrackingInit(t, model_path, TRUE, TRUE, TRUE, TRUE)
        \/ /\ CallerMayInvoke(t)
           /\ \E image_data \in Pointers :
                MediapipeHolisticTrackingDetectFrameDirect(t, 640, 480, image_data,
                                                           "valid", FALSE)
        \/ /\ CallerMayInvoke(t)
           /\ MediapipeHolisticTrackingDetectCamera(t, FALSE)
        \/ /\ CallerMayInvoke(t)
           /\ MediapipeHolisticTrackingRelease(t)
        \/ /\ CallerMayInvoke(t)
           /\ \E image_data \in Pointers :
                MediapipeHolisticTrackingDetectFrame(t, 640, 480, 0, image_data,
                                                     "valid", "valid")
        \/ DetectorStep(t)
        \/ DataRace(t)
        \/ RaceCrash(t)
        \/ Return(t)

SpecConc == InitConc /\ [][NextConc]_vars

----------------------------------------------------------------------------
(* Properties *)

\* Thread t has made a call and the call has returned.
Returned(t) == pc[t] = "idle" /\ call[t].fn # "none"

\* The detector object the global names.
Detector == det[m_HolisticTrackingDetect]

\* C1: as long as Init has never been called, the process has not crashed and
\* every returned call of DetectFrameDirect, DetectFrame, DetectCamera or Release
\* returned 0.
C1_FailsBeforeInit ==
    ~initCalled =>
        /\ ~crashed
        /\ \A t \in Threads :
              (Returned(t) /\ call[t].fn \in DetectFns \cup {"MediapipeHolisticTrackingRelease"})
                  => ret[t] = <<0>>

\* A well-formed frame was submitted before any Init, and the call came back.
C1_Witness ==
    /\ ~initCalled
    /\ Returned(Caller)
    /\ call[Caller].fn = "MediapipeHolisticTrackingDetectFrameDirect"
    /\ WellFormed(call[Caller].args[1], call[Caller].args[2], call[Caller].args[3],
                  call[Caller].args[4])
    /\ ret[Caller] = <<0>>

\* C2: a detect call made after a Release, with no Init in between, returns 0.
C2_DetectAfterReleaseFails ==
    \A t \in Threads :
        (Returned(t) /\ call[t].fn \in DetectFns /\ releasedSinceInit)
            => ret[t] = <<0>>

\* A well-formed frame was submitted to a detector that had been initialized and
\* then released.
C2_Witness ==
    /\ releasedSinceInit
    /\ initCalled
    /\ Returned(Caller)
    /\ call[Caller].fn = "MediapipeHolisticTrackingDetectFrame"
    /\ call[Caller].pre = "released"
    /\ WellFormed(call[Caller].args[1], call[Caller].args[2], call[Caller].args[4],
                  call[Caller].args[5])
    /\ ret[Caller] = <<0>>

\* C3: whatever an exported function returns is 0 or 1.
C3_ReturnIsZeroOrOne ==
    \A t \in Threads :
        /\ Len(ret[t]) <= 1
        /\ Returned(t) => (Len(ret[t]) = 1 /\ ret[t][1] \in {0, 1})

\* A DetectCamera call came back with 1 (a failed call, with 0, is the witness
\* of other properties).
C3_Witness ==
    /\ Returned(Caller)
    /\ call[Caller].fn = "MediapipeHolisticTrackingDetectCamera"
    /\ ret[Caller] = <<1>>

\* C4: there is exactly one HolisticTrackingDetect object, the global names it,
\* and every invocation any call has made went to it.
C4_OneInstance ==
    /\ constructed = 1
    /\ DOMAIN det = {1}
    /\ m_HolisticTrackingDetect = 1
    /\ \A t \in Threads : \A k \in 1..Len(inv[t]) : inv[t][k].self = 1

\* Init was called on an already initialized detector (a second Init with no
\* Release in between) and succeeded.
C4_Witness ==
    /\ Returned(Caller)
    /\ call[Caller].fn = "MediapipeHolisticTrackingInit"
    /\ call[Caller].pre = "initialized"
    /\ ret[Caller] = <<1>>

\* C5: every invocation a call makes is of the method its function corresponds
\* to, with the function's own arguments in the same order, and a returned call
\* returned exactly the value that method returned.
C5_PassThrough ==
    \A t \in Threads :
        /\ \A k \in 1..Len(inv[t]) :
              /\ inv[t][k].method = MethodOf(call[t].fn)
              /\ inv[t][k].args = call[t].args
        /\ Returned(t) => (Len(dret[t]) = 1 /\ ret[t] = dret[t])

\* A DetectFrameDirect call with a well-formed frame returned the detector's 1.
C5_Witness ==
    /\ Returned(Caller)
    /\ call[Caller].fn = "MediapipeHolisticTrackingDetectFrameDirect"
    /\ call[Caller].args[1] = 640
    /\ call[Caller].args[2] = 480
    /\ dret[Caller] = <<1>>
    /\ ret[Caller] = <<1>>

\* C6: no step of a detect call (its entry, the method's steps, its return)
\* changes the detector's lifecycle state or its stream flags.
C6_DetectLeavesLifecycle ==
    [][call'[Caller].fn \in DetectFns =>
          /\ Detector'.lifecycle = Detector.lifecycle
          /\ Detector'.streams = Detector.streams]_vars

\* A detect call succeeded on a detector configured with some streams on and
\* some off.
C6_Witness ==
    /\ Returned(Caller)
    /\ call[Caller].fn \in DetectFns
    /\ ret[Caller] = <<1>>
    /\ Detector.lifecycle = "initialized"
    /\ Detector.streams = <<TRUE, FALSE, TRUE, FALSE>>

\* C7: the exported functions take no lock: an idle thread can enter any of
\* them whatever the other thread is doing; at most one thread is inside an
\* exported function whenever the caller serializes.
C7_NoSynchronization ==
    /\ \A t \in Threads :
          (pc[t] = "idle" /\ ~crashed) =>
              /\ ENABLED MediapipeHolisticTrackingInit(t, "ok", TRUE, TRUE, TRUE, TRUE)
              /\ ENABLED MediapipeHolisticTrackingDetectFrameDirect(t, 640, 480, "valid",
                                                                    "valid", FALSE)
              /\ ENABLED MediapipeHolisticTrackingDetectCamera(t, FALSE)
              /\ ENABLED MediapipeHolisticTrackingRelease(t)
              /\ ENABLED MediapipeHolisticTrackingDetectFrame(t, 640, 480, 0, "valid",
                                                              "valid", "valid")
    /\ serialized => Cardinality({t \in Threads : pc[t] # "idle"}) <= 1

\* Without serialization: one thread is inside DetectImage while the other is
\* inside Release, on the same object.
C7_Witness ==
    /\ ~serialized
    /\ Inside("t1", "DetectImage")
    /\ Inside("t2", "Release")
    /\ Cur("t1").self = Cur("t2").self

\* C8: while a capture loop runs no exported call begins or returns; a running
\* loop stops only by the detector ending it; and a DetectCamera call returns
\* only with the loop over and the method's value in hand.
C8_CameraBlocks ==
    [][/\ Detector.capturing =>
             /\ call' = call
             /\ ret' = ret
             /\ pc'[Caller] # "idle"
       /\ (Detector.capturing /\ ~Detector'.capturing) =>
             /\ Inside(Caller, "DetectCamera")
             /\ pc'[Caller] = "detector_returned"
             /\ Len(dret'[Caller]) = 1
       /\ (call'[Caller].fn = "MediapipeHolisticTrackingDetectCamera"
           /\ ~Returned(Caller) /\ Returned(Caller)') =>
             /\ ~Detector.capturing
             /\ pc[Caller] = "detector_returned"
             /\ ret'[Caller] = dret[Caller]]_vars

\* A DetectCamera call has returned after its loop processed frames.
C8_Witness ==
    /\ Returned(Caller)
    /\ call[Caller].fn = "MediapipeHolisticTrackingDetectCamera"
    /\ Detector.frames > 0
    /\ ~Detector.capturing
    /\ ret[Caller] = <<1>>

\* C9: once a call has begun it has made exactly one invocation, of the method
\* its function corresponds to, and an idle thread can begin a call with null or
\* non-positive arguments in every lifecycle state.
C9_ExactlyOneInvocation ==
    \A t \in Threads :
        /\ call[t].fn # "none" =>
              /\ Len(inv[t]) = 1
              /\ inv[t][1].method = MethodOf(call[t].fn)
        /\ (pc[t] = "idle" /\ ~crashed) =>
              /\ ENABLED MediapipeHolisticTrackingInit(t, "null", TRUE, TRUE, TRUE, TRUE)
              /\ ENABLED MediapipeHolisticTrackingDetectFrame(t, 0, -1, 0, "null",
                                                              "null", "null")

\* A DetectFrame call with a null image_data and non-positive sizes, made after
\* Release, reached DetectImage and returned.
C9_Witness ==
    /\ Returned(Caller)
    /\ call[Caller].fn = "MediapipeHolisticTrackingDetectFrame"
    /\ call[Caller].args[1] = 0
    /\ call[Caller].args[2] = -1
    /\ call[Caller].args[4] = "null"
    /\ call[Caller].pre = "released"
    /\ Len(inv[Caller]) = 1
    /\ ret[Caller] = <<0>>

\* C10: the global always names the object built at load, and an Init call, in
\* whatever lifecycle state it is made, reaches InitModel on that object and
\* returns what InitModel returned.
C10_InitAlwaysForwarded ==
    /\ m_HolisticTrackingDetect = 1
    /\ \A t \in Threads :
          call[t].fn = "MediapipeHolisticTrackingInit" =>
              /\ inv[t] = << [method |-> "InitModel", args |-> call[t].args,
                              self |-> 1] >>
              /\ Returned(t) => ret[t] = dret[t]

\* An Init made on a released detector went through and succeeded.
C10_Witness ==
    /\ Returned(Caller)
    /\ call[Caller].fn = "MediapipeHolisticTrackingInit"
    /\ call[Caller].pre = "released"
    /\ releasedSinceInit = FALSE
    /\ ret[Caller] = <<1>>

====
